---- MODULE Spec2Model ----
(***************************************************************************)
(* A model of the focusbox scheduling/gating state machine                 *)
(* (FocusBoxStateMachine in scheduler.py, BoxHardware.lock/unlock in       *)
(* box.py, the polling loop of __main__.py).                               *)
(*                                                                         *)
(* Time is counted in units of 0.1 s.  A ScheduledBlock is a record with   *)
(* an `id` field: the class defines no __eq__, so Python's == on blocks is *)
(* object identity, and two blocks with the same mode/start/end but        *)
(* different ids are different objects.  Optional values are sequences of  *)
(* length at most one (None is the empty sequence).                        *)
(***************************************************************************)
EXTENDS Integers, Sequences, FiniteSets, TLC

\* ---------------------------------------------------------------- bounds

\* Timestamps passed to update are 0..MaxTime.
MaxTime == 3

\* A schedule handed to update holds at most MaxLen blocks.
MaxLen == 2

\* The phone_poll_period_s argument given to the constructor (units of 0.1 s).
PollPeriodArg == 2

\* One detection call takes at most MaxSamples distance readings.
MaxSamples == 3

\* scheduler.py:73, max(0.1, phone_poll_period_s): 0.1 s is one unit.
MIN_POLL_PERIOD == 1

\* ------------------------------------------------------------ data model

None == << >>

Some(x) == << x >>

Times == 0 .. MaxTime

\* ScheduledBlock.mode: build_schedule produces "FOCUS" and "SLEEP"; update
\* also handles any other string.
Kinds == {"FOCUS", "SLEEP", "OTHER"}

\* Object identities of blocks (two refresh generations).
BlockIds == {1, 2}

\* google_calendar.ScheduledBlock (title is display-only and left out).
ScheduledBlock == [id : BlockIds, mode : Kinds, start : Times, end : Times]

\* Mode and GateState enumerations.
Mode == {"IDLE", "FOCUS", "SLEEP", "EMERGENCY"}

GateState == {"WAIT_PHONE", "LOCKED"}

\* Outcome of one box.is_phone_present() call: True, False or an exception.
Readings == {"present", "absent", "error"}

\* dataclass State, with the state machine's private fields and the
\* BoxHardware._locked flag it commands.  `effects` is the list of commands
\* the current call has issued to the box and to the audio backend.
InitMachine ==
    [ mode |-> "IDLE",
      gate |-> "WAIT_PHONE",
      active_block |-> None,
      last_phone_check_ts |-> None,
      wait_music_playing |-> FALSE,
      locked |-> FALSE,
      effects |-> << >> ]

\* PhoneDetectConfig: the defaults of the ultrasonic detector (3 samples,
\* 10.0 cm).
DEFAULT_ULTRASONIC_SAMPLES == 3
ultrasonic_threshold_cm == 10

\* __init__: self.phone_poll_period_s = max(0.1, phone_poll_period_s)
phone_poll_period_s ==
    IF PollPeriodArg > MIN_POLL_PERIOD THEN PollPeriodArg ELSE MIN_POLL_PERIOD

\* --------------------------------------------------- schedule helpers

\* Insert block b behind every element whose start is <= b.start: one step
\* of a stable sort by start.
RECURSIVE InsertByStart(_, _)
InsertByStart(b, s) ==
    IF s = << >> THEN << b >>
    ELSE IF Head(s).start <= b.start
         THEN << Head(s) >> \o InsertByStart(b, Tail(s))
         ELSE << b >> \o s

\* sorted(schedule, key=lambda b: b.start): Python's sort is stable, so
\* blocks with equal start keep their order in `schedule`.
RECURSIVE SortedByStart(_)
SortedByStart(s) ==
    IF s = << >> THEN << >>
    ELSE InsertByStart(s[Len(s)], SortedByStart(SubSeq(s, 1, Len(s) - 1)))

\* Mutant: the interval is taken as closed at its end (now <= block.end).
RECURSIVE ScanBlocks_ClosedEnd(_, _, _, _)
ScanBlocks_ClosedEnd(blocks, i, now, active) ==
    IF i > Len(blocks) THEN [active |-> active, nxt |-> None]
    ELSE LET block == blocks[i] IN
         IF block.start <= now /\ now <= block.end
         THEN ScanBlocks_ClosedEnd(blocks, i + 1, now, Some(block))
         ELSE IF block.start > now
              THEN [active |-> active, nxt |-> Some(block)]
              ELSE ScanBlocks_ClosedEnd(blocks, i + 1, now, active)

\* The for loop of _find_current_and_next from position i on.
RECURSIVE ScanBlocks(_, _, _, _)
ScanBlocks(blocks, i, now, active) ==
    IF i > Len(blocks) THEN [active |-> active, nxt |-> None]
    ELSE LET block == blocks[i] IN
         IF block.start <= now /\ now < block.end
         THEN ScanBlocks(blocks, i + 1, now, Some(block))
         ELSE IF block.start > now
              THEN [active |-> active, nxt |-> Some(block)]
              ELSE ScanBlocks(blocks, i + 1, now, active)

_find_current_and_next(now, schedule) ==
    ScanBlocks(SortedByStart(schedule), 1, now, None)

\* ------------------------------------------------------- box hardware

Emit(m, e) == [m EXCEPT !.effects = Append(@, e)]

\* The call in progress has raised: a motor command failed and nothing has
\* caught the exception.
Raised(m) ==
    /\ m.effects # << >>
    /\ m.effects[Len(m.effects)] \in {"lock_failed", "unlock_failed"}

\* An assignment `self.state.<field> = value` that follows a hardware call:
\* it is not reached when the call raised.
Assign(m, field, value) ==
    IF Raised(m) THEN m ELSE [m EXCEPT ![field] = value]

\* Mutant: lock runs the motors but does not record the lock as engaged.
box_lock_NoEngage(m) ==
    IF m.locked THEN Emit(m, "lock_noop")
    ELSE IF ~m.actuator_ok THEN Emit(m, "lock_failed")
    ELSE Emit(m, "lock")

\* BoxHardware.lock: returns at once when already locked ("lock_noop"),
\* else runs the motors and sets _locked ("lock").  When the motors raise
\* ("lock_failed") _locked keeps its value and the exception leaves lock.
box_lock(m) ==
    IF m.locked THEN Emit(m, "lock_noop")
    ELSE IF ~m.actuator_ok THEN Emit(m, "lock_failed")
    ELSE [Emit(m, "lock") EXCEPT !.locked = TRUE]

\* BoxHardware.unlock: returns at once when not locked ("unlock_noop"),
\* else runs the motors and clears _locked ("unlock").  When the motors
\* raise ("unlock_failed") _locked keeps its value.
box_unlock(m) ==
    IF ~m.locked THEN Emit(m, "unlock_noop")
    ELSE IF ~m.actuator_ok THEN Emit(m, "unlock_failed")
    ELSE [Emit(m, "unlock") EXCEPT !.locked = FALSE]

\* ------------------------------------------------------ audio helpers

\* _start_wait_music: music_play may raise (musicOk = FALSE); the flag is
\* then left unset.
_start_wait_music(m, musicOk) ==
    IF m.wait_music_playing THEN m
    ELSE IF musicOk
         THEN [Emit(m, "play_wait") EXCEPT !.wait_music_playing = TRUE]
         ELSE Emit(m, "play_wait_failed")

\* Mutant: the waiting cue is stopped but still marked as playing.
_stop_wait_music_KeepsFlag(m) ==
    IF ~m.wait_music_playing THEN m
    ELSE Emit(m, "music_stop")

_stop_wait_music(m) ==
    IF ~m.wait_music_playing THEN m
    ELSE [Emit(m, "music_stop") EXCEPT !.wait_music_playing = FALSE]

\* _play_sfx: a one-shot cue; a failure of music_play is caught and changes
\* nothing.  The call is not reached behind a hardware call that raised.
_play_sfx(m, cue) == IF Raised(m) THEN m ELSE Emit(m, cue)

\* -------------------------------------------------------- transitions

\* Mutant: leaving an interval forgets to release the lock.
_enter_mode_NoUnlock(m, mode, block) ==
    IF mode = m.mode /\ block = m.active_block THEN m
    ELSE
      LET m1 == IF m.mode \in {"FOCUS", "SLEEP"} /\ mode = "IDLE"
                THEN _stop_wait_music(m) ELSE m
          m2 == [m1 EXCEPT !.mode = mode, !.active_block = block]
      IN
      IF mode = "IDLE"
      THEN [m2 EXCEPT !.gate = "WAIT_PHONE"]
      ELSE IF mode \in {"FOCUS", "SLEEP"}
      THEN [m2 EXCEPT !.gate = "WAIT_PHONE", !.last_phone_check_ts = None]
      ELSE IF mode = "EMERGENCY"
      THEN Assign(box_unlock(_stop_wait_music(m2)), "gate", "WAIT_PHONE")
      ELSE m2

\* Mutant: the transition runs on every tick, also when neither the mode
\* nor the block changes.
_enter_mode_AlwaysTransition(m, mode, block) ==
    LET m1 == IF m.mode \in {"FOCUS", "SLEEP"} /\ mode = "IDLE"
              THEN _stop_wait_music(m) ELSE m
        m2 == [m1 EXCEPT !.mode = mode, !.active_block = block]
    IN
    IF mode = "IDLE"
    THEN LET m3 == IF m2.locked
                   THEN _play_sfx(box_unlock(m2), "sfx_unlock")
                   ELSE m2
         IN Assign(m3, "gate", "WAIT_PHONE")
    ELSE IF mode \in {"FOCUS", "SLEEP"}
    THEN [m2 EXCEPT !.gate = "WAIT_PHONE", !.last_phone_check_ts = None]
    ELSE IF mode = "EMERGENCY"
    THEN Assign(box_unlock(_stop_wait_music(m2)), "gate", "WAIT_PHONE")
    ELSE m2

\* Mutant: the 'released' cue is played on every transition to IDLE, locked
\* or not.
_enter_mode_AlwaysCue(m, mode, block) ==
    IF mode = m.mode /\ block = m.active_block THEN m
    ELSE
      LET m1 == IF m.mode \in {"FOCUS", "SLEEP"} /\ mode = "IDLE"
                THEN _stop_wait_music(m) ELSE m
          m2 == [m1 EXCEPT !.mode = mode, !.active_block = block]
      IN
      IF mode = "IDLE"
      THEN LET m3 == _play_sfx(IF m2.locked THEN box_unlock(m2) ELSE m2,
                               "sfx_unlock")
           IN Assign(m3, "gate", "WAIT_PHONE")
      ELSE IF mode \in {"FOCUS", "SLEEP"}
      THEN [m2 EXCEPT !.gate = "WAIT_PHONE", !.last_phone_check_ts = None]
      ELSE IF mode = "EMERGENCY"
      THEN Assign(box_unlock(_stop_wait_music(m2)), "gate", "WAIT_PHONE")
      ELSE m2

_enter_mode(m, mode, block) ==
    IF mode = m.mode /\ block = m.active_block THEN m
    ELSE
      LET m1 == IF m.mode \in {"FOCUS", "SLEEP"} /\ mode = "IDLE"
                THEN _stop_wait_music(m) ELSE m
          m2 == [m1 EXCEPT !.mode = mode, !.active_block = block]
      IN
      IF mode = "IDLE"
      THEN LET m3 == IF m2.locked
                     THEN _play_sfx(box_unlock(m2), "sfx_unlock")
                     ELSE m2
           IN Assign(m3, "gate", "WAIT_PHONE")
      ELSE IF mode \in {"FOCUS", "SLEEP"}
      THEN [m2 EXCEPT !.gate = "WAIT_PHONE", !.last_phone_check_ts = None]
      ELSE IF mode = "EMERGENCY"
      THEN Assign(box_unlock(_stop_wait_music(m2)), "gate", "WAIT_PHONE")
      ELSE m2

\* --------------------------------------------------------- core logic

\* Mutant: the gate is set to LOCKED after every poll, phone or no phone.
PollPhone_LocksWithoutPhone(m, now, reading) ==
    LET m1 == Emit([m EXCEPT !.last_phone_check_ts = Some(now)],
                   IF reading = "present" THEN "read_present"
                   ELSE IF reading = "absent" THEN "read_absent"
                   ELSE "read_error")
    IN
    Assign(box_lock(_play_sfx(_stop_wait_music(m1), "sfx_placed")),
        "gate", "LOCKED")

\* Mutant: a presence read that raises does not count as a poll; the poll
\* timestamp is only taken when the read returns.
PollPhone_ErrorKeepsTimer(m, now, reading) ==
    LET m1 == Emit(IF reading = "error" THEN m
                   ELSE [m EXCEPT !.last_phone_check_ts = Some(now)],
                   IF reading = "present" THEN "read_present"
                   ELSE IF reading = "absent" THEN "read_absent"
                   ELSE "read_error")
        present == (reading = "present")
    IN
    IF present
    THEN Assign(box_lock(_play_sfx(_stop_wait_music(m1), "sfx_placed")),
                "gate", "LOCKED")
    ELSE m1

\* The part of _handle_phone_gate behind the rate limit (lines 154-169).
PollPhone(m, now, reading) ==
    LET m1 == Emit([m EXCEPT !.last_phone_check_ts = Some(now)],
                   IF reading = "present" THEN "read_present"
                   ELSE IF reading = "absent" THEN "read_absent"
                   ELSE "read_error")
        present == (reading = "present")
    IN
    IF present
    THEN Assign(box_lock(_play_sfx(_stop_wait_music(m1), "sfx_placed")),
            "gate", "LOCKED")
    ELSE m1

\* Mutant: a gate that is LOCKED never looks at the physical lock again.
_handle_phone_gate_NoRelock(m, now, require_phone, reading, musicOk) ==
    IF ~require_phone
    THEN IF ~m.locked
         THEN Assign(box_lock(_stop_wait_music(m)), "gate", "LOCKED")
         ELSE m
    ELSE IF m.gate = "LOCKED"
    THEN m
    ELSE
      LET m1 == _start_wait_music(m, musicOk) IN
      IF m1.last_phone_check_ts # None
         /\ now - m1.last_phone_check_ts[1] < phone_poll_period_s
      THEN m1
      ELSE PollPhone(m1, now, reading)

\* Mutant: the gate polls the sensor on every tick, without the rate limit.
_handle_phone_gate_NoRateLimit(m, now, require_phone, reading, musicOk) ==
    IF ~require_phone
    THEN IF ~m.locked
         THEN Assign(box_lock(_stop_wait_music(m)), "gate", "LOCKED")
         ELSE m
    ELSE IF m.gate = "LOCKED"
    THEN IF ~m.locked THEN box_lock(m) ELSE m
    ELSE PollPhone(_start_wait_music(m, musicOk), now, reading)

\* Mutant: after the first presence read of a stay the gate never polls
\* again.
_handle_phone_gate_PollsOnce(m, now, require_phone, reading, musicOk) ==
    IF ~require_phone
    THEN IF ~m.locked
         THEN Assign(box_lock(_stop_wait_music(m)), "gate", "LOCKED")
         ELSE m
    ELSE IF m.gate = "LOCKED"
    THEN IF ~m.locked THEN box_lock(m) ELSE m
    ELSE
      LET m1 == _start_wait_music(m, musicOk) IN
      IF m1.last_phone_check_ts # None
      THEN m1
      ELSE PollPhone(m1, now, reading)

_handle_phone_gate(m, now, require_phone, reading, musicOk) ==
    IF ~require_phone
    THEN IF ~m.locked
         THEN Assign(box_lock(_stop_wait_music(m)), "gate", "LOCKED")
         ELSE m
    ELSE IF m.gate = "LOCKED"
    THEN IF ~m.locked THEN box_lock(m) ELSE m
    ELSE
      LET m1 == _start_wait_music(m, musicOk) IN
      IF m1.last_phone_check_ts # None
         /\ now - m1.last_phone_check_ts[1] < phone_poll_period_s
      THEN m1
      ELSE PollPhone(m1, now, reading)

\* ------------------------------------------------------- external API

\* Mutant: update without the EMERGENCY early return.
update_NoEmergencyGuard(m, now, schedule, require_phone, reading, musicOk) ==
    LET active == _find_current_and_next(now, schedule).active IN
    IF active = None THEN _enter_mode(m, "IDLE", None)
    ELSE
      LET m1 == IF active[1].mode = "FOCUS"
                THEN _enter_mode(m, "FOCUS", active)
                ELSE IF active[1].mode = "SLEEP"
                THEN _enter_mode(m, "SLEEP", active)
                ELSE _enter_mode(m, "IDLE", None)
      IN
      IF m1.mode \in {"FOCUS", "SLEEP"} /\ ~Raised(m1)
      THEN _handle_phone_gate(m1, now, require_phone, reading, musicOk)
      ELSE m1

\* Mutant: a block of an unknown kind sends the machine to IDLE but is kept
\* as the active block.
update_KeepsUnknownBlock(m, now, schedule, require_phone, reading, musicOk) ==
    IF m.mode = "EMERGENCY" THEN m
    ELSE
      LET active == _find_current_and_next(now, schedule).active IN
      IF active = None THEN _enter_mode(m, "IDLE", None)
      ELSE
        LET m1 == IF active[1].mode = "FOCUS"
                  THEN _enter_mode(m, "FOCUS", active)
                  ELSE IF active[1].mode = "SLEEP"
                  THEN _enter_mode(m, "SLEEP", active)
                  ELSE _enter_mode(m, "IDLE", active)
        IN
        IF m1.mode \in {"FOCUS", "SLEEP"} /\ ~Raised(m1)
        THEN _handle_phone_gate(m1, now, require_phone, reading, musicOk)
        ELSE m1

update(m, now, schedule, require_phone, reading, musicOk) ==
    IF m.mode = "EMERGENCY" THEN m
    ELSE
      LET active == _find_current_and_next(now, schedule).active IN
      IF active = None THEN _enter_mode(m, "IDLE", None)
      ELSE
        LET m1 == IF active[1].mode = "FOCUS"
                  THEN _enter_mode(m, "FOCUS", active)
                  ELSE IF active[1].mode = "SLEEP"
                  THEN _enter_mode(m, "SLEEP", active)
                  ELSE _enter_mode(m, "IDLE", None)
        IN
        IF m1.mode \in {"FOCUS", "SLEEP"} /\ ~Raised(m1)
        THEN _handle_phone_gate(m1, now, require_phone, reading, musicOk)
        ELSE m1

\* Mutant: the emergency path leaves the waiting cue playing.
emergency_unlock_NoCueStop(m) ==
    LET m1 == box_unlock(m) IN
    IF Raised(m1) THEN m1
    ELSE [m1 EXCEPT !.mode = "EMERGENCY",
                    !.active_block = None,
                    !.gate = "WAIT_PHONE"]

emergency_unlock(m) ==
    LET m1 == box_unlock(_stop_wait_music(m)) IN
    IF Raised(m1) THEN m1
    ELSE [m1 EXCEPT !.mode = "EMERGENCY",
                    !.active_block = None,
                    !.gate = "WAIT_PHONE"]

\* -------------------------------------------------------------- state

VARIABLES
    mode,                    \* State.mode
    gate,                    \* State.gate
    active_block,            \* State.active_block
    last_phone_check_ts,     \* FocusBoxStateMachine._last_phone_check_ts
    wait_music_playing,      \* FocusBoxStateMachine._wait_music_playing
    locked,                  \* BoxHardware._locked
    require_phone_for_lock,  \* constructor argument
    schedule,                \* main(): the schedule list of the polling loop
    now,                     \* the timestamp of the latest update call
    resolved,                \* `active` of the latest _find_current_and_next
    effects,                 \* commands issued by the latest call
    lastOp,                  \* the entry point that ran last
    pc,                      \* position of the polling thread inside update
    last_read,               \* history: the latest presence read
    ultrasonic_samples,      \* PhoneDetectConfig.ultrasonic_samples
    distances,               \* what read_distance_cm returns, call by call
    detected,                \* result of _phone_present_ultrasonic
    phone                    \* the phone lies in the box for good

vars == << mode, gate, active_block, last_phone_check_ts, wait_music_playing,
           locked, require_phone_for_lock, schedule, now, resolved, effects,
           lastOp, pc, last_read, ultrasonic_samples, distances, detected,
           phone >>

\* The phone-detection variables; the state machine never touches them.
detectVars == << ultrasonic_samples, distances, detected, phone >>

\* The machine as the record the operators above work on; every call starts
\* with an empty command list.
Machine ==
    [ mode |-> mode,
      gate |-> gate,
      active_block |-> active_block,
      last_phone_check_ts |-> last_phone_check_ts,
      wait_music_playing |-> wait_music_playing,
      locked |-> locked,
      actuator_ok |-> TRUE,
      effects |-> << >> ]

\* The same with motors that raise when they are told to run.
FaultyMachine == [Machine EXCEPT !.actuator_ok = FALSE]

Store(m) ==
    /\ mode' = m.mode
    /\ gate' = m.gate
    /\ active_block' = m.active_block
    /\ last_phone_check_ts' = m.last_phone_check_ts
    /\ wait_music_playing' = m.wait_music_playing
    /\ locked' = m.locked
    /\ effects' = m.effects

\* The block objects the calendar refreshes of the run deliver: a FOCUS
\* block and a second object equal to it field by field (the same event
\* fetched again), a SLEEP block that overlaps them and starts later, and a
\* block of a kind update does not know that overlaps the SLEEP block, and
\* a short SLEEP block that starts with the FOCUS block.  No block covers
\* time 3.
Calendar ==
    { [id |-> 1, mode |-> "FOCUS", start |-> 0, end |-> 2],
      [id |-> 2, mode |-> "FOCUS", start |-> 0, end |-> 2],
      [id |-> 1, mode |-> "SLEEP", start |-> 0, end |-> 1],
      [id |-> 1, mode |-> "SLEEP", start |-> 1, end |-> 3],
      [id |-> 1, mode |-> "OTHER", start |-> 2, end |-> 3] }

RECURSIVE SeqsUpTo(_, _)
SeqsUpTo(S, n) ==
    IF n = 0 THEN {<< >>}
    ELSE LET shorter == SeqsUpTo(S, n - 1) IN
         shorter \cup {Append(s, b) : s \in shorter, b \in S}

Schedules == SeqsUpTo(Calendar, MaxLen)

\* FocusBoxStateMachine.__init__ and BoxHardware.__init__; main() starts with
\* schedule = [].
Init ==
    /\ mode = InitMachine.mode
    /\ gate = InitMachine.gate
    /\ active_block = InitMachine.active_block
    /\ last_phone_check_ts = InitMachine.last_phone_check_ts
    /\ wait_music_playing = InitMachine.wait_music_playing
    /\ locked = InitMachine.locked
    /\ effects = InitMachine.effects
    /\ require_phone_for_lock \in BOOLEAN
    /\ schedule = << >>
    /\ now = 0
    /\ resolved = None
    /\ lastOp = "init"
    /\ pc = "idle"
    /\ last_read = None
    /\ ultrasonic_samples = DEFAULT_ULTRASONIC_SAMPLES
    /\ distances = << >>
    /\ detected = None
    /\ phone = FALSE

\* ------------------------------------------------------------ actions

\* fsm.update(t, schedule) run from its first statement to its return (or
\* to the exception that leaves it) on the machine m0.
UpdateCall(m0, t, reading, musicOk) ==
    /\ lastOp # "resolve"
    /\ pc = "idle"
    /\ \E m \in {update(m0, t, schedule, require_phone_for_lock, reading,
                         musicOk)} : Store(m)
    /\ now' = t
    /\ resolved' = IF mode = "EMERGENCY" THEN resolved
                   ELSE _find_current_and_next(t, schedule).active
    /\ lastOp' = "update"
    /\ UNCHANGED << require_phone_for_lock, schedule, pc, detectVars >>

\* One tick of main()'s loop: fsm.update(now, schedule).
Update ==
    \E t \in Times, reading \in Readings, musicOk \in BOOLEAN :
        /\ UpdateCall(Machine, t, reading, musicOk)
        /\ UNCHANGED last_read

\* fsm.emergency_unlock() run as one step on the machine m0.
EmergencyCall(m0) ==
    /\ lastOp # "resolve"
    /\ pc = "idle"
    /\ Store(emergency_unlock(m0))
    /\ lastOp' = "emergency"
    /\ UNCHANGED << require_phone_for_lock, schedule, now, resolved, pc,
                    last_read, detectVars >>

\* The hardware button (or any caller): fsm.emergency_unlock().
Emergency == EmergencyCall(Machine)

\* Somebody forces the lid open between two ticks: the lock is physically
\* disengaged without the state machine taking part.
Tamper ==
    /\ locked
    /\ pc = "idle"
    /\ locked' = FALSE
    /\ effects' = << >>
    /\ lastOp' = "tamper"
    /\ UNCHANGED << mode, gate, active_block, last_phone_check_ts,
                    wait_music_playing, require_phone_for_lock, schedule,
                    now, resolved, pc, last_read, detectVars >>

\* main(): schedule = build_schedule(events), a list of new block objects.
Refresh ==
    /\ pc = "idle"
    /\ schedule' \in Schedules \ {schedule}
    /\ effects' = << >>
    /\ lastOp' = "refresh"
    /\ UNCHANGED << mode, gate, active_block, last_phone_check_ts,
                    wait_music_playing, locked, require_phone_for_lock,
                    now, resolved, pc, last_read, detectVars >>

Next == Update \/ Emergency \/ Tamper \/ Refresh

Spec == Init /\ [][Next]_vars

\* ------------------------------------- interval resolution on its own

\* Every block over the model's timestamps, malformed ones (end <= start)
\* included; the kind plays no part in the resolution.
ResolveBlocks == {b \in ScheduledBlock : b.mode = "FOCUS"}

ResolveSchedules == SeqsUpTo(ResolveBlocks, MaxLen)

InitResolve ==
    /\ mode = InitMachine.mode
    /\ gate = InitMachine.gate
    /\ active_block = InitMachine.active_block
    /\ last_phone_check_ts = InitMachine.last_phone_check_ts
    /\ wait_music_playing = InitMachine.wait_music_playing
    /\ locked = InitMachine.locked
    /\ effects = InitMachine.effects
    /\ require_phone_for_lock = TRUE
    /\ schedule \in ResolveSchedules
    /\ now \in Times
    /\ resolved = None
    /\ lastOp = "init"
    /\ pc = "idle"
    /\ last_read = None
    /\ ultrasonic_samples = DEFAULT_ULTRASONIC_SAMPLES
    /\ distances = << >>
    /\ detected = None
    /\ phone = FALSE

\* One call _find_current_and_next(now, schedule); `resolved` is its first
\* result.
Resolve ==
    /\ lastOp = "init"
    /\ resolved' = _find_current_and_next(now, schedule).active
    /\ lastOp' = "resolve"
    /\ UNCHANGED << mode, gate, active_block, last_phone_check_ts,
                    wait_music_playing, locked, require_phone_for_lock,
                    schedule, now, effects, pc, last_read, detectVars >>

SpecResolve == InitResolve /\ [][Resolve]_vars

\* How many entries of the command list e lie in the set S.
Count(e, S) == Cardinality({i \in 1 .. Len(e) : e[i] \in S})

LockCommands == {"lock", "lock_noop"}

UnlockCommands == {"unlock", "unlock_noop"}

AudioCommands ==
    {"play_wait", "play_wait_failed", "music_stop", "sfx_placed", "sfx_unlock"}

ReadCommands == {"read_present", "read_absent", "read_error"}

InInterval == {"FOCUS", "SLEEP"}

FailedCommands == {"lock_failed", "unlock_failed"}

\* --------------------------------------- the history of presence reads

\* Update, with the latest presence read remembered: the timestamp of the
\* update that made it, what it returned, and whether the machine is still
\* in the stay (no _enter_mode transition has run since) it was made in.
UpdateHist ==
    \E t \in Times, reading \in Readings, musicOk \in BOOLEAN :
        /\ UpdateCall(Machine, t, reading, musicOk)
        /\ LET m == update(Machine, t, schedule, require_phone_for_lock,
                           reading, musicOk)
               moved == m.mode # mode \/ m.active_block # active_block
           IN last_read' =
                IF Count(m.effects, ReadCommands) > 0
                THEN Some([ts |-> t, outcome |-> reading, stay |-> TRUE])
                ELSE IF moved /\ last_read # None
                THEN Some([last_read[1] EXCEPT !.stay = FALSE])
                ELSE last_read

NextHist == UpdateHist \/ Emergency \/ Tamper \/ Refresh

SpecHist == Init /\ [][NextHist]_vars

\* ------------------------------------------------ motors that can fail

\* A tick of main()'s loop during which the motors raise when they are run.
UpdateFault ==
    \E t \in Times, reading \in Readings, musicOk \in BOOLEAN :
        /\ UpdateCall(FaultyMachine, t, reading, musicOk)
        /\ UNCHANGED last_read

\* fsm.emergency_unlock() while the motors raise.
EmergencyFault == EmergencyCall(FaultyMachine)

NextFault ==
    Update \/ UpdateFault \/ Emergency \/ EmergencyFault \/ Tamper \/ Refresh

SpecFault == Init /\ [][NextFault]_vars

\* ----------------------------- emergency_unlock from another context

\* The machine in the middle of a call: the commands issued so far stay.
Running == [Machine EXCEPT !.effects = effects]

\* update, lines 93-105: the transition to the mode of the resolved block.
EnterResolved(m, active) ==
    IF active = None THEN _enter_mode(m, "IDLE", None)
    ELSE IF active[1].mode = "FOCUS" THEN _enter_mode(m, "FOCUS", active)
    ELSE IF active[1].mode = "SLEEP" THEN _enter_mode(m, "SLEEP", active)
    ELSE _enter_mode(m, "IDLE", None)

\* update, lines 89-93: the EMERGENCY test and the resolution.
UpdateBegin ==
    \E t \in Times :
        /\ pc = "idle"
        /\ lastOp # "resolve"
        /\ now' = t
        /\ effects' = << >>
        /\ IF mode = "EMERGENCY"
           THEN pc' = "idle" /\ lastOp' = "update" /\ resolved' = resolved
           ELSE /\ pc' = "enter"
                /\ lastOp' = lastOp
                /\ resolved' = _find_current_and_next(t, schedule).active
        /\ UNCHANGED << mode, gate, active_block, last_phone_check_ts,
                        wait_music_playing, locked, require_phone_for_lock,
                        schedule, last_read, detectVars >>

\* update, lines 95-105: _enter_mode for the block resolved at UpdateBegin.
UpdateEnter ==
    /\ pc = "enter"
    /\ Store(EnterResolved(Running, resolved))
    /\ pc' = "check"
    /\ UNCHANGED << require_phone_for_lock, schedule, now, resolved, lastOp,
                    last_read, detectVars >>

\* update, line 108: the test of self.state.mode before the gate logic.
UpdateCheck ==
    /\ pc = "check"
    /\ IF mode \in InInterval
       THEN pc' = "gate" /\ lastOp' = lastOp
       ELSE pc' = "idle" /\ lastOp' = "update"
    /\ UNCHANGED << mode, gate, active_block, last_phone_check_ts,
                    wait_music_playing, locked, require_phone_for_lock,
                    schedule, now, resolved, effects, last_read, detectVars >>

\* update, line 109: _handle_phone_gate, then the return.
UpdateGate ==
    \E reading \in Readings, musicOk \in BOOLEAN :
        /\ pc = "gate"
        /\ Store(_handle_phone_gate(Running, now, require_phone_for_lock,
                                    reading, musicOk))
        /\ pc' = "idle"
        /\ lastOp' = "update"
        /\ UNCHANGED << require_phone_for_lock, schedule, now, resolved,
                        last_read, detectVars >>

\* emergency_unlock called from another execution context, wherever the
\* polling thread stands; nothing in the class serializes the two.  The
\* command list restarts with the commands of this call.
EmergencyAsync ==
    /\ lastOp # "resolve"
    /\ Store(emergency_unlock(Machine))
    /\ lastOp' = "emergency"
    /\ UNCHANGED << require_phone_for_lock, schedule, now, resolved, pc,
                    last_read, detectVars >>

NextConc ==
    \/ UpdateBegin \/ UpdateEnter \/ UpdateCheck \/ UpdateGate
    \/ EmergencyAsync \/ Refresh

SpecConc == Init /\ [][NextConc]_vars

\* ------------------------------------------- ultrasonic phone detection

\* Distances in cm the sensor returns in the model: the readings of the
\* documented examples, the threshold itself and the -1 of a timed-out
\* echo.
Distances == {-1, 8, 10, 12, 14, 15}

\* Configured sample counts, values below 1 included.
SampleCounts == -1 .. MaxSamples

\* The for loop of _phone_present_ultrasonic: samples.append of the next
\* reading, k times.
RECURSIVE TakeSamples(_, _, _)
TakeSamples(stream, k, samples) ==
    IF k = 0 THEN samples
    ELSE TakeSamples(Tail(stream), k - 1, Append(samples, Head(stream)))

\* Python's min over a non-empty list.
min(samples) ==
    CHOOSE d \in {samples[i] : i \in 1 .. Len(samples)} :
        \A j \in 1 .. Len(samples) : d <= samples[j]

\* Mutant: presence is decided on the farthest reading.
_phone_present_ultrasonic_Farthest(n, stream) ==
    LET samples == TakeSamples(stream, IF n > 1 THEN n ELSE 1, << >>)
        d_max == CHOOSE d \in {samples[i] : i \in 1 .. Len(samples)} :
                    \A j \in 1 .. Len(samples) : d >= samples[j]
    IN [present |-> d_max <= ultrasonic_threshold_cm, samples |-> samples]

\* BoxHardware._phone_present_ultrasonic with ultrasonic_samples = n and a
\* sensor that returns the readings of stream in turn; the result holds
\* the return value and the readings taken.
_phone_present_ultrasonic(n, stream) ==
    LET samples == TakeSamples(stream, IF n > 1 THEN n ELSE 1, << >>)
        d_min == min(samples)
    IN [present |-> d_min <= ultrasonic_threshold_cm, samples |-> samples]

RECURSIVE SeqsOfLen(_, _)
SeqsOfLen(S, n) ==
    IF n = 0 THEN {<< >>}
    ELSE {Append(s, x) : s \in SeqsOfLen(S, n - 1), x \in S}

InitDetect ==
    /\ mode = InitMachine.mode
    /\ gate = InitMachine.gate
    /\ active_block = InitMachine.active_block
    /\ last_phone_check_ts = InitMachine.last_phone_check_ts
    /\ wait_music_playing = InitMachine.wait_music_playing
    /\ locked = InitMachine.locked
    /\ effects = InitMachine.effects
    /\ require_phone_for_lock = TRUE
    /\ schedule = << >>
    /\ now = 0
    /\ resolved = None
    /\ lastOp = "init"
    /\ pc = "idle"
    /\ last_read = None
    /\ ultrasonic_samples \in SampleCounts
    /\ distances \in SeqsOfLen(Distances, MaxSamples)
    /\ detected = None
    /\ phone = FALSE

\* One call box.is_phone_present() with the ultrasonic sensor selected.
Detect ==
    /\ lastOp = "init"
    /\ detected' = Some(_phone_present_ultrasonic(ultrasonic_samples,
                                                  distances))
    /\ lastOp' = "detect"
    /\ UNCHANGED << mode, gate, active_block, last_phone_check_ts,
                    wait_music_playing, locked, require_phone_for_lock,
                    schedule, now, resolved, effects, pc, last_read,
                    ultrasonic_samples, distances, phone >>

SpecDetect == InitDetect /\ [][Detect]_vars

\* ------------------------------------- a long interval, phone put down

\* One interval that covers every timestamp of the model, as the block
\* object a refresh delivers: FOCUS or SLEEP, first or second object built
\* from the same calendar event.
LiveSchedules ==
    {<< [id |-> i, mode |-> k, start |-> 0, end |-> MaxTime + 1] >> :
        i \in BlockIds, k \in {"FOCUS", "SLEEP"}}

InitLive ==
    /\ mode = InitMachine.mode
    /\ gate = InitMachine.gate
    /\ active_block = InitMachine.active_block
    /\ last_phone_check_ts = InitMachine.last_phone_check_ts
    /\ wait_music_playing = InitMachine.wait_music_playing
    /\ locked = InitMachine.locked
    /\ effects = InitMachine.effects
    /\ require_phone_for_lock = TRUE
    /\ schedule \in LiveSchedules
    /\ now = 0
    /\ resolved = None
    /\ lastOp = "init"
    /\ pc = "idle"
    /\ last_read = None
    /\ ultrasonic_samples = DEFAULT_ULTRASONIC_SAMPLES
    /\ distances = << >>
    /\ detected = None
    /\ phone = FALSE

\* What is_phone_present can do: anything before the phone is put down,
\* True afterwards.
LiveReadings == IF phone THEN {"present"} ELSE Readings

\* A tick of main()'s loop with the clock at t, not before the tick before.
UpdateAt(t) ==
    \E reading \in LiveReadings, musicOk \in BOOLEAN :
        /\ t >= now
        /\ UpdateCall(Machine, t, reading, musicOk)
        /\ UNCHANGED last_read

UpdateLive == \E t \in Times : UpdateAt(t)

\* A tick of the loop once the clock has advanced a poll period past the
\* latest presence read (any tick when there is none).
UpdateDue ==
    \E t \in Times :
        /\ last_phone_check_ts # None
              => t - last_phone_check_ts[1] >= phone_poll_period_s
        /\ UpdateAt(t)

\* The user puts the phone into the box and leaves it there; the model's
\* clock still has a poll period to run.
PlacePhone ==
    /\ ~phone
    /\ last_phone_check_ts # None
          => last_phone_check_ts[1] + phone_poll_period_s <= MaxTime
    /\ phone' = TRUE
    /\ lastOp' = "place"
    /\ effects' = << >>
    /\ UNCHANGED << mode, gate, active_block, last_phone_check_ts,
                    wait_music_playing, locked, require_phone_for_lock,
                    schedule, now, resolved, pc, last_read,
                    ultrasonic_samples, distances, detected >>

\* main(): the refresh rebuilds the same calendar event as a new object.
RefreshLive ==
    /\ schedule' \in {s \in LiveSchedules : s[1].mode = schedule[1].mode}
                        \ {schedule}
    /\ effects' = << >>
    /\ lastOp' = "refresh"
    /\ UNCHANGED << mode, gate, active_block, last_phone_check_ts,
                    wait_music_playing, locked, require_phone_for_lock,
                    now, resolved, pc, last_read, detectVars >>

NextLive == UpdateLive \/ PlacePhone \/ RefreshLive

\* main() calls update every 0.2 s with time.time(): a tick at which the
\* poll is due keeps coming.
SpecLive == InitLive /\ [][NextLive]_vars /\ WF_vars(UpdateDue)

\* ============================================================ claims

\* C1 (I1): after every call of update or emergency_unlock, whatever the
\* schedules, presence readings and tamper-unlocks before it,
\* gate == LOCKED implies that mode is FOCUS or SLEEP and that the physical
\* lock is engaged.
C1_GateLockedImpliesLockEngaged ==
    (lastOp \in {"update", "emergency"} /\ gate = "LOCKED")
        => (mode \in InInterval /\ locked)

\* An update has just re-engaged a lock that was forced open while the gate
\* was LOCKED.
C1_Witness ==
    /\ lastOp = "update"
    /\ gate = "LOCKED"
    /\ require_phone_for_lock
    /\ effects = << "lock" >>

\* C2 (I2): in every state reached by an update, an engaged lock implies
\* that mode is FOCUS or SLEEP; an update that resolves no active interval
\* leaves the lock disengaged.
C2_NoLockOutsideInterval ==
    lastOp = "update"
        => /\ locked => mode \in InInterval
           /\ _find_current_and_next(now, schedule).active = None => ~locked

\* An update has just left an interval and released the engaged lock.
C2_Witness ==
    /\ lastOp = "update"
    /\ mode = "IDLE"
    /\ _find_current_and_next(now, schedule).active = None
    /\ Count(effects, {"unlock"}) = 1

\* C3 (I3): once mode == EMERGENCY, an update call, for any now and any
\* schedule, changes none of mode, gate, active_block, the poll timestamp,
\* the wait-cue flag and the lock, and issues no command; the lock is
\* disengaged whenever mode is EMERGENCY.
C3_EmergencyNeverAutoExits ==
    /\ [][(mode = "EMERGENCY" /\ lastOp' = "update")
            => /\ UNCHANGED << mode, gate, active_block, last_phone_check_ts,
                               wait_music_playing, locked >>
               /\ effects' = << >>]_vars
    /\ [](mode = "EMERGENCY" => ~locked)

\* update has run in EMERGENCY with a schedule whose FOCUS block is active.
C3_Witness ==
    /\ lastOp = "update"
    /\ mode = "EMERGENCY"
    /\ LET a == _find_current_and_next(now, schedule).active
       IN a # None /\ a[1].mode = "FOCUS"

\* C4: emergency_unlock, called in any reachable state, ends with
\* mode == EMERGENCY, the lock disengaged, active_block cleared,
\* gate == WAIT_PHONE and the waiting cue stopped.
C4_EmergencyUnlockPostcondition ==
    lastOp = "emergency"
        => /\ mode = "EMERGENCY"
           /\ ~locked
           /\ active_block = None
           /\ gate = "WAIT_PHONE"
           /\ ~wait_music_playing

\* emergency_unlock has run with the lock engaged and the waiting cue
\* playing: it stopped the cue and ran the motors.
C4_Witness ==
    /\ lastOp = "emergency"
    /\ effects = << "music_stop", "unlock" >>

\* The blocks of the schedule whose half-open range holds the timestamp.
Matching(t, sched) ==
    {sched[i] : i \in {j \in 1 .. Len(sched) :
                         sched[j].start <= t /\ t < sched[j].end}}

\* C5: the block _find_current_and_next(t, S) returns is an element i of S
\* with i.start <= t < i.end, and the result is None exactly when no
\* element of S satisfies that bound.
C5_ResolveWithinHalfOpenBound ==
    lastOp = "resolve"
        => /\ resolved # None => resolved[1] \in Matching(now, schedule)
           /\ resolved = None <=> Matching(now, schedule) = {}

\* A resolution at t == start of one block and t == end of another: the
\* first is returned, the second is not active.
C5_Witness ==
    /\ lastOp = "resolve"
    /\ resolved # None
    /\ resolved[1].start = now
    /\ \E i \in 1 .. Len(schedule) :
          schedule[i].end = now /\ schedule[i].start < now

\* C6: when more than one block contains now, the resolution picks the one
\* with the earliest start.
C6_EarliestStartWins ==
    (lastOp = "resolve" /\ Cardinality(Matching(now, schedule)) > 1)
        => /\ resolved # None
           /\ \A b \in Matching(now, schedule) : resolved[1].start <= b.start

\* The schedule <<b1, b2>> in every order.
Orderings(sched) ==
    {[i \in 1 .. Len(sched) |-> sched[p[i]]] :
        p \in Permutations(1 .. Len(sched))}

\* A block without its object identity.
Value(b) == [mode |-> b.mode, start |-> b.start, end |-> b.end]

OptValue(o) == IF o = None THEN None ELSE Some(Value(o[1]))

\* C7: for every timestamp and every two orderings of the same collection
\* of blocks, _find_current_and_next returns the same interval; among
\* matching blocks with the same start the one with the earliest end is
\* returned.
C7_OrderIndependent ==
    lastOp = "resolve"
        => /\ \A other \in Orderings(schedule) :
                OptValue(_find_current_and_next(now, other).active)
                    = OptValue(resolved)
           /\ \A b \in Matching(now, schedule) :
                (resolved # None /\ b.start = resolved[1].start)
                    => resolved[1].end <= b.end

\* Two update calls in a row: nothing ran between them, so the schedule is
\* the same list object and nobody touched the lock.
UpdateAfterUpdate == lastOp = "update" /\ lastOp' = "update"

Abs(x) == IF x < 0 THEN -x ELSE x

\* C8 as claimed: a second update with the same schedule and a now less
\* than one poll period away from the first call's now issues no lock,
\* unlock, audio or presence-read command and leaves mode, gate and
\* active_block as the first call left them.
C8_SecondUpdateWithinPollPeriodIsNoOp ==
    [][(UpdateAfterUpdate /\ Abs(now' - now) < phone_poll_period_s)
         => /\ effects' = << >>
            /\ UNCHANGED << mode, gate, active_block >>]_vars

\* The second call resolves the block the first call resolved and, if the
\* first call left the gate waiting for the phone, comes less than one poll
\* period after the latest presence read.
SameTick ==
    /\ _find_current_and_next(now', schedule).active
         = _find_current_and_next(now, schedule).active
    /\ (mode \in InInterval /\ gate = "WAIT_PHONE" /\ require_phone_for_lock)
         => /\ last_phone_check_ts # None
            /\ now' - last_phone_check_ts[1] < phone_poll_period_s

\* C8 amended: a second update with the same schedule, whose now resolves
\* the same block and, while the gate waits for the phone, is less than one
\* poll period after the latest presence read, issues no lock, unlock,
\* presence-read or one-shot-cue command and leaves mode, gate,
\* active_block, the lock and the poll timestamp unchanged; the only command
\* it may issue is a new attempt to start the waiting cue when the cue is
\* not playing because its start failed.
C8_SecondUpdateSameTickIsNoOp ==
    [][(UpdateAfterUpdate /\ SameTick)
         => /\ UNCHANGED << mode, gate, active_block, locked,
                            last_phone_check_ts >>
            /\ \/ effects' = << >>
               \/ /\ ~wait_music_playing
                  /\ mode \in InInterval /\ gate = "WAIT_PHONE"
                  /\ effects' \in {<< "play_wait" >>, << "play_wait_failed" >>}]_vars

\* An update has run inside the poll window of an earlier presence read,
\* with the same block active and the cue playing, and has issued nothing.
C8_Witness ==
    /\ lastOp = "update"
    /\ mode \in InInterval
    /\ gate = "WAIT_PHONE"
    /\ wait_music_playing
    /\ last_phone_check_ts # None
    /\ last_phone_check_ts[1] < now
    /\ now - last_phone_check_ts[1] < phone_poll_period_s
    /\ effects = << >>

LaterPresenceLocks ==
    (/\ lastOp' = "update"
     /\ require_phone_for_lock
     /\ mode \in InInterval
     /\ gate = "WAIT_PHONE"
     /\ active_block' = active_block /\ mode' = mode
     /\ Count(effects', {"read_present"}) = 1)
        => /\ gate' = "LOCKED"
           /\ locked'
           /\ Count(effects', LockCommands) = 1

\* C10 as claimed (presence required): the update that takes the machine
\* from IDLE into FOCUS/SLEEP leaves gate == WAIT_PHONE and issues no lock
\* command in that tick; a later update inside the same interval whose
\* presence read returns true moves gate to LOCKED and issues exactly one
\* lock command.
C10_EntryNeverLocks ==
    [][/\ (/\ lastOp' = "update"
           /\ require_phone_for_lock
           /\ mode = "IDLE"
           /\ mode' \in InInterval)
              => /\ gate' = "WAIT_PHONE"
                 /\ Count(effects', LockCommands) = 0
       /\ LaterPresenceLocks]_vars

\* C10 amended (presence required): the update that takes the machine from
\* IDLE into FOCUS/SLEEP reads the sensor in that same tick; unless that
\* read returns true it leaves gate == WAIT_PHONE and issues no lock
\* command, and if it returns true the gate is LOCKED with exactly one lock
\* command already in that tick; a later update inside the same interval
\* whose presence read returns true moves gate to LOCKED and issues exactly
\* one lock command.
C10_EntryLocksOnlyOnPresence ==
    [][/\ (/\ lastOp' = "update"
           /\ require_phone_for_lock
           /\ mode = "IDLE"
           /\ mode' \in InInterval)
              => /\ Count(effects', ReadCommands) = 1
                 /\ IF Count(effects', {"read_present"}) = 1
                    THEN /\ gate' = "LOCKED"
                         /\ Count(effects', LockCommands) = 1
                    ELSE /\ gate' = "WAIT_PHONE"
                         /\ Count(effects', LockCommands) = 0
       /\ LaterPresenceLocks]_vars

\* A later update in the interval has just read the phone as present (the
\* cue was playing from an earlier tick) and locked.
C10_Witness ==
    /\ lastOp = "update"
    /\ require_phone_for_lock
    /\ mode = "FOCUS"
    /\ gate = "LOCKED"
    /\ effects = << "read_present", "music_stop", "sfx_placed", "lock" >>

\* Presence has been read as true during the current stay in the active
\* block.
PresenceConfirmed ==
    /\ last_read # None
    /\ last_read[1].outcome = "present"
    /\ last_read[1].stay

\* C11 (presence required): every lock command issued by update is issued
\* in a tick whose presence read returned true or as a re-lock while the
\* gate was already LOCKED, and after an update the lock is never engaged
\* in an interval for which no presence read has returned true.
C11_NoLockWithoutPresence ==
    /\ [][(lastOp' = "update" /\ require_phone_for_lock
             /\ Count(effects', LockCommands) > 0)
            => \/ Count(effects', {"read_present"}) > 0
               \/ gate = "LOCKED"]_vars
    /\ []((lastOp = "update" /\ require_phone_for_lock
             /\ mode \in InInterval /\ locked)
            => PresenceConfirmed)

\* The first half of C12: the update whose presence read raises issues no
\* lock command, leaves gate == WAIT_PHONE with the lock as it was, and
\* takes the poll timestamp.
FailedReadDoesNotLock ==
    (lastOp' = "update" /\ Count(effects', {"read_error"}) > 0)
        => /\ Count(effects', LockCommands \cup FailedCommands) = 0
           /\ gate' = "WAIT_PHONE"
           /\ locked' = locked
           /\ last_phone_check_ts' = Some(now')

\* C12 as claimed: when is_phone_present raises during update in
\* WAIT_PHONE, update returns normally, issues no lock command, leaves
\* gate == WAIT_PHONE, and the sensor is not read again until an update
\* whose now is at least one poll period after the failed read.
C12_FailedReadNotRetriedBeforePollPeriod ==
    [][/\ FailedReadDoesNotLock
       /\ (/\ lastOp' = "update"
           /\ last_read # None
           /\ last_read[1].outcome = "error"
           /\ Count(effects', ReadCommands) > 0)
              => now' - last_read[1].ts >= phone_poll_period_s]_vars

\* C12 amended: when is_phone_present raises during update in WAIT_PHONE,
\* update returns normally, issues no lock command and leaves
\* gate == WAIT_PHONE; as long as no _enter_mode transition runs (the
\* machine stays in the same active block object), the sensor is not read
\* again until an update whose now is at least one poll period after the
\* failed read.  A transition into another block resets the poll timer.
C12_FailedReadNotRetriedWithinStay ==
    [][/\ FailedReadDoesNotLock
       /\ (/\ lastOp' = "update"
           /\ last_read # None
           /\ last_read[1].outcome = "error"
           /\ last_read[1].stay
           /\ mode' = mode /\ active_block' = active_block
           /\ Count(effects', ReadCommands) > 0)
              => now' - last_read[1].ts >= phone_poll_period_s]_vars

\* An update has run inside the poll window of a failed read, in the same
\* stay, and has left the sensor alone.
C12_Witness ==
    /\ lastOp = "update"
    /\ mode \in InInterval
    /\ gate = "WAIT_PHONE"
    /\ last_read # None
    /\ last_read[1].outcome = "error"
    /\ last_read[1].stay
    /\ now > last_read[1].ts
    /\ now - last_read[1].ts < phone_poll_period_s
    /\ Count(effects, ReadCommands) = 0

\* C13: when box.lock or box.unlock raises while update performs a lock or
\* unlock, the exception leaves update (nothing runs behind the failed
\* command), and a failed lock command never leaves gate == LOCKED.
C13_ActuatorFailureSurfaced ==
    lastOp = "update"
        => /\ Count(effects, FailedCommands) > 0
                => effects[Len(effects)] \in FailedCommands
           /\ Count(effects, {"lock_failed"}) > 0 => gate # "LOCKED"

\* C14: after every update call made while not in EMERGENCY, mode is FOCUS
\* (resp. SLEEP) exactly when the interval resolved for the call's now has
\* kind FOCUS (resp. SLEEP), and then active_block is that interval and
\* contains now; mode is IDLE exactly when no interval is resolved or its
\* kind is unknown, and then active_block is None.
C14_ModeMatchesResolvedInterval ==
    (lastOp = "update" /\ mode # "EMERGENCY")
        => /\ \A k \in InInterval :
                mode = k <=> (resolved # None /\ resolved[1].mode = k)
           /\ mode \in InInterval
                => /\ active_block = resolved
                   /\ active_block[1].start <= now
                   /\ now < active_block[1].end
           /\ mode = "IDLE"
                <=> (resolved = None \/ resolved[1].mode \notin InInterval)
           /\ mode = "IDLE" => active_block = None

\* An update has resolved a block of a kind it does not know while a SLEEP
\* block was active, and has gone to IDLE without an active block.
C14_Witness ==
    /\ lastOp = "update"
    /\ mode = "IDLE"
    /\ resolved # None
    /\ resolved[1].mode = "OTHER"
    /\ active_block = None
    /\ Count(effects, {"unlock"}) = 1

\* C15: however the steps of an update in progress and a call of
\* emergency_unlock interleave, once emergency_unlock has set
\* mode == EMERGENCY no later step sets mode back to FOCUS/SLEEP/IDLE or
\* engages the lock, so that the machine is in EMERGENCY with the lock
\* disengaged when both have finished.
C15_EmergencyNotOverwritten ==
    [][mode = "EMERGENCY" => (mode' = "EMERGENCY" /\ ~locked')]_vars

\* C16: distance-based detection returns true exactly when the smallest of
\* the readings of the call is <= the threshold (<<12, 8, 15>> gives true
\* and <<12, 14, 15>> false at threshold 10); the call takes
\* ultrasonic_samples readings, and one reading when the configured count
\* is below 1.
C16_PresentIffMinWithinThreshold ==
    lastOp = "detect"
        => LET r == detected[1]
               k == IF ultrasonic_samples < 1 THEN 1 ELSE ultrasonic_samples
           IN /\ Len(r.samples) = k
              /\ r.samples = SubSeq(distances, 1, k)
              /\ r.present
                   <=> (\E i \in 1 .. k : distances[i] <= ultrasonic_threshold_cm)
              /\ r.samples = << 12, 8, 15 >> => r.present
              /\ r.samples = << 12, 14, 15 >> => ~r.present

\* The documented example: three readings 12, 8, 15 have been taken and
\* the phone is reported present.
C16_Witness ==
    /\ lastOp = "detect"
    /\ ultrasonic_samples = 3
    /\ detected = Some([present |-> TRUE, samples |-> << 12, 8, 15 >>])

\* The update of this step resolves a block that is equal, field by field,
\* to the block that was active before it.
ResolvesEqualBlock ==
    /\ lastOp' = "update"
    /\ mode \in InInterval
    /\ active_block # None
    /\ resolved' # None
    /\ Value(resolved'[1]) = Value(active_block[1])

\* C17: an update that finds the active interval again in a refreshed
\* schedule, as a value-equal block, performs no transition: with the gate
\* LOCKED and the lock engaged it changes nothing and issues no command,
\* and with the gate waiting inside the poll window it neither resets the
\* poll timer nor reads the sensor.
C17_ValueEqualRefreshIsNoOp ==
    [][/\ (ResolvesEqualBlock /\ gate = "LOCKED" /\ locked)
            => /\ UNCHANGED << mode, gate, locked, last_phone_check_ts,
                               wait_music_playing >>
               /\ effects' = << >>
       /\ (/\ ResolvesEqualBlock
           /\ gate = "WAIT_PHONE"
           /\ last_phone_check_ts # None
           /\ now' - last_phone_check_ts[1] < phone_poll_period_s)
            => /\ UNCHANGED << mode, gate, locked, last_phone_check_ts >>
               /\ Count(effects', ReadCommands) = 0]_vars

\* The parts of C18 that do not compare two reads: an update makes at most
\* one presence read, and the update that enters a FOCUS/SLEEP block
\* (presence required) reads the sensor in that same call.
OneReadPerUpdateAndReadOnEntry ==
    /\ lastOp' = "update" => Count(effects', ReadCommands) <= 1
    /\ (/\ lastOp' = "update"
        /\ require_phone_for_lock
        /\ mode' \in InInterval
        /\ (mode' # mode \/ active_block' # active_block))
          => Count(effects', ReadCommands) = 1

\* C18 as claimed: at most one presence read per update call; any two
\* successive presence reads are made in update calls whose now values
\* differ by at least phone_poll_period_s, which is never below 0.1 s; the
\* first update after entering FOCUS/SLEEP reads without waiting.
C18_SuccessiveReadsPollPeriodApart ==
    /\ [][/\ OneReadPerUpdateAndReadOnEntry
          /\ (/\ lastOp' = "update"
              /\ last_read # None
              /\ Count(effects', ReadCommands) > 0)
                => now' - last_read[1].ts >= phone_poll_period_s]_vars
    /\ [](phone_poll_period_s >= MIN_POLL_PERIOD)

\* C18 amended: at most one presence read per update call; two successive
\* presence reads made during one stay in the same active block object (no
\* _enter_mode transition between them) are made in update calls whose now
\* values differ by at least phone_poll_period_s, which is never below
\* 0.1 s; the update that enters a FOCUS/SLEEP block reads without waiting,
\* however recent the read before it.
C18_ReadsWithinStayPollPeriodApart ==
    /\ [][/\ OneReadPerUpdateAndReadOnEntry
          /\ (/\ lastOp' = "update"
              /\ last_read # None
              /\ last_read[1].stay
              /\ mode' = mode /\ active_block' = active_block
              /\ Count(effects', ReadCommands) > 0)
                => now' - last_read[1].ts >= phone_poll_period_s]_vars
    /\ [](phone_poll_period_s >= MIN_POLL_PERIOD)

\* An update has run while the gate waits, less than a poll period after a
\* read of the same stay that found no phone, and has not read the sensor.
C18_Witness ==
    /\ lastOp = "update"
    /\ require_phone_for_lock
    /\ mode \in InInterval
    /\ gate = "WAIT_PHONE"
    /\ last_read # None
    /\ last_read[1].outcome = "absent"
    /\ last_read[1].stay
    /\ now > last_read[1].ts
    /\ now - last_read[1].ts < phone_poll_period_s
    /\ Count(effects, ReadCommands) = 0

C20_SelfHealingRelock ==
    [][(/\ lastOp' = "update"
        /\ mode \in InInterval
        /\ gate = "LOCKED"
        /\ ~locked
        /\ mode' = mode /\ active_block' = active_block)
          => /\ locked'
             /\ gate' = "LOCKED"
             /\ effects' = << "lock" >>
             /\ UNCHANGED << last_phone_check_ts, wait_music_playing >>]_vars

\* A SLEEP block was locked after a presence read, the lid was forced open,
\* and an update has just engaged the lock again.
C20_Witness ==
    /\ lastOp = "update"
    /\ require_phone_for_lock
    /\ mode = "SLEEP"
    /\ gate = "LOCKED"
    /\ locked
    /\ last_phone_check_ts # None
    /\ effects = << "lock" >>

\* The update of this step has taken the gate from WAIT_PHONE to LOCKED:
\* the gate was waiting before the call, or the call entered a block (which
\* resets the gate) and locked in the same tick.
GateLocksInStep ==
    /\ lastOp' = "update"
    /\ gate' = "LOCKED"
    /\ \/ gate = "WAIT_PHONE"
       \/ mode' # mode
       \/ active_block' # active_block

\* C21: every WAIT_PHONE -> LOCKED gate transition, with or without
\* presence required, stops the waiting cue if it is playing, plays the
\* 'confirmed' cue exactly once and issues the lock command, in that order,
\* within the same update call.
C21_LockTransitionCueOrder ==
    [][GateLocksInStep
         => /\ ~wait_music_playing'
            /\ Count(effects', {"sfx_placed"}) = 1
            /\ Count(effects', LockCommands) = 1
            /\ \E i, j \in 1 .. Len(effects') :
                  /\ i < j
                  /\ effects'[i] = "sfx_placed"
                  /\ effects'[j] \in LockCommands
                  /\ \A k \in 1 .. Len(effects') :
                        effects'[k] = "music_stop" => k < i]_vars

\* C22: an update that resolves no active interval never returns normally
\* while the lock is still engaged (after a failed unlock the unlock is
\* tried again, and fails loudly again, on the following ticks), and no
\* update leaves gate == LOCKED with mode == IDLE.
C22_FailedUnlockDoesNotStrand ==
    lastOp = "update"
        => /\ (mode = "IDLE" /\ resolved = None /\ locked)
                => (effects # << >>
                    /\ effects[Len(effects)] = "unlock_failed")
           /\ ~(mode = "IDLE" /\ gate = "LOCKED")

CueOnlyWhileWaiting ==
    (lastOp \in {"update", "emergency"} /\ wait_music_playing)
        => /\ mode \in InInterval
           /\ gate = "WAIT_PHONE"
           /\ require_phone_for_lock

\* A call starts the cue at most once, and only when the cue is not marked
\* playing.
CueStartedWhenSilent ==
    lastOp' \in {"update", "emergency"}
        => /\ Count(effects', {"play_wait"}) <= 1
           /\ wait_music_playing
                => Count(effects', {"play_wait", "play_wait_failed"}) = 0

C23_PhoneEventuallyLocks ==
    /\ phone ~> (gate = "LOCKED" /\ locked)
    /\ [][(phone /\ gate = "LOCKED" /\ locked)
            => (gate' = "LOCKED" /\ locked')]_vars

\* The phone was put down while the gate was waiting inside the poll
\* window; a tick a poll period after the latest read has found it and
\* locked.
C23_Witness ==
    /\ phone
    /\ lastOp = "update"
    /\ mode \in InInterval
    /\ gate = "LOCKED"
    /\ locked
    /\ now >= phone_poll_period_s
    /\ last_phone_check_ts = Some(now)
    /\ effects = << "read_present", "music_stop", "sfx_placed", "lock" >>

====
